---- MODULE Spec2Model ----
(***************************************************************************)
(* A model of the YouLess client (package youless): the request           *)
(* coordinator of client.go (Client.Request, Client.groupRequest,         *)
(* Client.AuthCookie, Client.Authorize, Client.fetchAuthCookie) as it is   *)
(* driven by concurrent callers against a device that answers freely, and  *)
(* the api calls built on Requester.Request (GetP1Telegram,                *)
(* GetMeterReading, GetLog) as one caller drives them.                     *)
(*                                                                         *)
(* The registry c.group is a singleflight.Group: Do(key, fn) runs fn for   *)
(* the caller that finds no entry for key and makes every caller that     *)
(* finds one wait for that call's result; the call's entry is deleted,    *)
(* under the group's mutex, when fn has returned (only if the entry is     *)
(* still that call's); Forget(key) deletes whatever entry key has.        *)
(***************************************************************************)
EXTENDS Integers, Sequences, FiniteSets, TLC

\* ------------------------------------------------------------------ bounds

\* The number of goroutines that call the shared Client.
NumCallers == 2

\* The number of Request calls the callers issue in all.
MaxRequests == 3

Callers == 1..NumCallers

\* ------------------------------------------------------- values and config

None == "none"

\* The group name Authorize passes to groupRequest.
AuthKey == "auth"

\* The pages (request paths, which are the dedup keys) the callers ask for.
Pages == {"d", "e"}

Keys == Pages \cup {AuthKey}

BaseURL == "http://youless"

\* The session cookies the device may issue (values of the cookie named tk).
Cookies == {"c1", "c2"}

\* The bodies the device may serve.
Bodies == {"b1", "b2"}

\* http.StatusForbidden, and the literal 403 of Authorize.
StatusForbidden == 403

\* The status above which a response is an UnexpectedResponseError.
StatusBadRequest == 400

\* The status of a redirect response the http.Client is about to follow.
StatusFound == 302

\* The statuses of the responses the http.Client returns as they are.
FinalStatuses == {200, StatusBadRequest, StatusForbidden, 500}

\* The contents of the file Config.PasswordFile names.
FileContents == "filepw"

\* The configurations: no credential, a password, a password and a
\* password file, each with the device's address and the default timeout
\* of 5 seconds, and one without an address.
Configs ==
    { [BaseURL |-> b, Timeout |-> 5, Password |-> c[1], PasswordFile |-> c[2]] :
        b \in {BaseURL},
        c \in { <<"", "">>, <<"pw", "">>, <<"pw", "pwfile">> } }
    \cup { [BaseURL |-> "", Timeout |-> 5, Password |-> "", PasswordFile |-> ""] }

\* --------------------------------------------------------- errors, results

NilErr == [kind |-> "nil", code |-> 0]

ErrPasswordRequired == [kind |-> "ErrPasswordRequired", code |-> 0]

ErrInvalidPassword == [kind |-> "ErrInvalidPassword", code |-> 0]

ErrReadPasswordFile == [kind |-> "ErrReadPasswordFile", code |-> 0]

\* The error of a failed exchange: c.client.Do or io.ReadAll failed
\* (connection failure, timeout, cancelled context), wrapped WithStack.
ErrTransport == [kind |-> "transport", code |-> 0]

UnexpectedResponseError(status) == [kind |-> "UnexpectedResponseError", code |-> status]

\* What group.Do hands back: (val, err).
Result(val, err) == [val |-> val, err |-> err]

NoResult == [val |-> None, err |-> [kind |-> "unset", code |-> 0]]

IsSet(res) == res.err.kind # "unset"

IsErr(res) == IsSet(res) /\ res.err # NilErr

IsOk(res) == res.err = NilErr

\* -------------------------------------------------------------- responses

\* What an exchange ends with. kind "error": c.client.Do failed. kind
\* "redirect": a 3xx response the http.Client was about to follow, so that
\* it called CheckRedirect, and which carries a cookie named tk: the hook
\* answers ErrUseLastResponse and Do returns this response. kind "final":
\* any response Do returns without a CheckRedirect call that finds tk (tk
\* is the cookie named tk it carries, if any). A redirect without tk is
\* followed and is not the end of the exchange. body, readOK: what
\* io.ReadAll gives for the response.
\* closed: res.Body.Close has run.
NoResponse ==
    [kind |-> "none", status |-> 0, tk |-> None, body |-> None, readOK |-> FALSE,
     closed |-> FALSE]

TransportFailure ==
    [kind |-> "error", status |-> 0, tk |-> None, body |-> None, readOK |-> FALSE,
     closed |-> FALSE]

RedirectResponses ==
    { [kind |-> "redirect", status |-> StatusFound, tk |-> c, body |-> None, readOK |-> FALSE,
       closed |-> FALSE] :
        c \in Cookies }

FinalResponses ==
    { [kind |-> "final", status |-> s, tk |-> c, body |-> None, readOK |-> FALSE,
       closed |-> FALSE] :
        s \in FinalStatuses, c \in {None, "c1"} }

\* The ways an exchange can end, before the body is read.
Responses == {TransportFailure} \cup RedirectResponses \cup FinalResponses

\* The ways reading a body can end: the bytes, or an error of io.ReadAll.
NoBody == [body |-> None, readOK |-> FALSE]

BodyReads == { [body |-> b, readOK |-> TRUE] : b \in Bodies } \cup {NoBody}

WithBody(r, b) == [r EXCEPT !.body = b.body, !.readOK = b.readOK]

\* The response after the deferred res.Body.Close of Request's fn, which
\* is registered once the status checks have let the response through.
Closed(r) == [r EXCEPT !.closed = TRUE]

\* What c.client.Do can end with: the default transport of the http.Client
\* refuses a URL without a scheme, so with an empty BaseURL Do fails.
DoEndsWith(conf, r) == conf.BaseURL = "" => r = TransportFailure

\* --------------------------------------------------------------- requests

VARIABLES
    Config,         \* c.Config: BaseURL, Timeout, Password, PasswordFile
    log,            \* c.log: the logger, "nil" until one is set
    client          \* c.client: the http.Client, of which the Timeout

GetRequest(p, c) ==
    [method |-> "GET", url |-> <<Config.BaseURL, "/", p>>, cookie |-> c, form |-> <<>>]

PostRequest(pw) ==
    [method |-> "POST", url |-> <<Config.BaseURL>>, cookie |-> None, form |-> <<"w", pw>>]

\* ------------------------------------------------------------------ state

\* A call of the singleflight group: the caller that runs fn, and which fn.
NoCall == [owner |-> 0, fn |-> None]

Call(t, f) == [owner |-> t, fn |-> f]

VARIABLES
    cookie,         \* c.cookie: the cached auth cookie, None when nil
    group,          \* c.group: key -> the call registered for it
    pc,             \* where each caller is
    page,           \* the page of the caller's Request
    waitOn,         \* the call a caller is joined to (c.wg.Wait)
    reqRes,         \* what groupRequest(page) gave the caller
    authRes,        \* what groupRequest("auth") gave the caller
    dataResp,       \* the response of the data exchange the caller ran
    authResp,       \* the response of the authenticate exchange it ran
    sent,           \* the requests the caller's Request has sent, in order
    reqLeft         \* the Requests the callers may still issue

\* The state of an api call of apiRequester, which gets its data through
\* Requester.Request.
VARIABLES
    apiPc,          \* where the caller of the api is
    apiOp,          \* the api call and its arguments
    tg,             \* GetP1Telegram's locals: i, buf, atEnd, res.Data
    requested,      \* the paths the api call has passed to Request, in order
    served,         \* what Request has given the api call (out), in order
    apiRes          \* what the api call returns

apiVars == <<apiPc, apiOp, tg, requested, served, apiRes>>

coordVars == <<Config, log, client, cookie, group, pc, page, waitOn, reqRes, authRes, dataResp,
               authResp, sent, reqLeft>>

vars == <<coordVars, apiVars>>

\* A []byte: nil, or a slice with its bytes.
NilSlice == [isNil |-> TRUE, bytes |-> <<>>]

Slice(b) == [isNil |-> FALSE, bytes |-> b]

NoApiOp == [op |-> None, u |-> None, i |-> 0, page |-> 0, arg |-> <<>>]

\* No api call is in progress.
ApiIdle ==
    /\ apiPc = "idle"
    /\ apiOp = NoApiOp
    /\ tg = [i |-> 0, buf |-> <<>>, atEnd |-> FALSE, Data |-> NilSlice]
    /\ requested = <<>>
    /\ served = <<>>
    /\ apiRes = [val |-> <<>>, err |-> [kind |-> "unset", code |-> 0]]

Init ==
    /\ Config \in Configs
    /\ log = "nil"
    /\ client = [Timeout |-> 0]
    /\ cookie = None
    /\ group = [k \in Keys |-> NoCall]
    /\ pc = [t \in Callers |-> "idle"]
    /\ page = [t \in Callers |-> None]
    /\ waitOn = [t \in Callers |-> NoCall]
    /\ reqRes = [t \in Callers |-> NoResult]
    /\ authRes = [t \in Callers |-> NoResult]
    /\ dataResp = [t \in Callers |-> NoResponse]
    /\ authResp = [t \in Callers |-> NoResponse]
    /\ sent = [t \in Callers |-> <<>>]
    /\ reqLeft = MaxRequests
    /\ ApiIdle

\* A panic that nothing recovers ends the process.
Crashed == \E t \in Callers : pc[t] = "panicked"

\* ------------------------------------------------- the pure parts of the code

\* The hook, were it not installed on the http.Client in use.
fetchAuthCookie_notInstalled(r, old) == old

\* The hook, were it to keep a cookie that is already cached.
fetchAuthCookie_keepsOld(r, old) ==
    IF r.kind = "redirect" /\ r.tk # None /\ old = None THEN r.tk ELSE old

\* The hook, were a failure of c.client.Do to clear the cached cookie.
fetchAuthCookie_clearsOnError(r, old) ==
    IF r.kind = "redirect" /\ r.tk # None THEN r.tk
    ELSE IF r.kind = "error" THEN None ELSE old

\* The hook, were it to take the cookie of any response that carries tk.
fetchAuthCookie_anyResponse(r, old) == IF r.tk # None THEN r.tk ELSE old

\* The hook NewClient installs as CheckRedirect: the cookie cached after
\* the http.Client has handled response r, old being cached before.
fetchAuthCookie(r, old) ==
    IF r.kind = "redirect" /\ r.tk # None THEN r.tk ELSE old

\* Request's fn, were it to drop the error of c.client.Do.
ClassifyData_dropsError(r) ==
    IF r.kind = "error" THEN Result(None, NilErr)
    ELSE IF r.status = StatusForbidden THEN Result(None, ErrPasswordRequired)
    ELSE IF r.status > StatusBadRequest THEN Result(None, UnexpectedResponseError(r.status))
    ELSE IF ~r.readOK THEN Result(None, ErrTransport)
    ELSE Result(r.body, NilErr)

\* Request's fn, were it without its check for StatusForbidden.
ClassifyData_no403(r) ==
    IF r.kind = "error" THEN Result(None, ErrTransport)
    ELSE IF r.status > StatusBadRequest THEN Result(None, UnexpectedResponseError(r.status))
    ELSE IF ~r.readOK THEN Result(None, ErrTransport)
    ELSE Result(r.body, NilErr)

\* Request's fn, after c.client.Do: the result for response r.
ClassifyData(r) ==
    IF r.kind = "error" THEN Result(None, ErrTransport)
    ELSE IF r.status = StatusForbidden THEN Result(None, ErrPasswordRequired)
    ELSE IF r.status > StatusBadRequest THEN Result(None, UnexpectedResponseError(r.status))
    ELSE IF ~r.readOK THEN Result(None, ErrTransport)
    ELSE Result(r.body, NilErr)

\* Authorize's fn, were it to answer 403 with the error of the data fetch.
ClassifyAuth_wrongError(r) ==
    IF r.kind = "error" THEN Result(None, ErrTransport)
    ELSE IF r.status = StatusForbidden THEN Result(None, ErrPasswordRequired)
    ELSE IF r.status > StatusBadRequest THEN Result(None, UnexpectedResponseError(r.status))
    ELSE Result(None, NilErr)

\* Authorize's fn, after c.client.Do: the result for response r.
ClassifyAuth(r) ==
    IF r.kind = "error" THEN Result(None, ErrTransport)
    ELSE IF r.status = StatusForbidden THEN Result(None, ErrInvalidPassword)
    ELSE IF r.status > StatusBadRequest THEN Result(None, UnexpectedResponseError(r.status))
    ELSE Result(None, NilErr)

\* AuthCookie, were its nil check inverted.
NeedsAuth_inverted(c) == c # None

\* AuthCookie, were it to authenticate whatever is cached.
NeedsAuth_always(c) == TRUE

\* AuthCookie: whether it must authenticate, c being what c.cookie.Load gave.
NeedsAuth(c) == c = None

\* AuthCookie, were Password to come before PasswordFile.
AuthPassword_passwordFirst(conf) ==
    IF conf.Password # "" THEN conf.Password
    ELSE IF conf.PasswordFile # "" THEN FileContents
    ELSE ""

\* AuthCookie: the password it authenticates with ("" when none is configured).
AuthPassword(conf) ==
    IF conf.PasswordFile # "" THEN FileContents
    ELSE conf.Password

\* AuthCookie, were it to drop the error of Authorize.
AuthFailed_never(res) == FALSE

\* AuthCookie and Request's fn: whether Authorize's result ends fn.
AuthFailed(res) == res.err # NilErr

\* Whether a response of the data exchange has a body that fn reads.
ReadsBody(r) ==
    /\ r.kind # "error"
    /\ r.status # StatusForbidden
    /\ ~(r.status > StatusBadRequest)

\* --------------------------------------------------------------- actions

\* c.client.Timeout = c.Config.Timeout, before each c.client.Do.
SetTimeout == client' = [client EXCEPT !.Timeout = Config.Timeout]

\* fn sets the timeout and sends the data request with cookie c (nil: no
\* cookie attached).
SendData(t, c) ==
    /\ SetTimeout
    /\ sent' = [sent EXCEPT ![t] = Append(@, GetRequest(page[t], c))]
    /\ pc' = [pc EXCEPT ![t] = "req_exchange"]

\* The http.Client values an option may supply: the zero one, and one with
\* a timeout of 30 seconds.
HTTPClients == { [Timeout |-> 0], [Timeout |-> 30] }

\* NewClient applies the option WithHTTPClient(cl), before it hands out the
\* Client: c.client = cl, and the hook is installed on it again.
WithHTTPClient(cl) ==
    /\ reqLeft = MaxRequests
    /\ \A t \in Callers : pc[t] = "idle"
    /\ client' = cl
    /\ UNCHANGED <<apiVars, Config, log, cookie, group, pc, page, waitOn, reqRes, authRes,
                   dataResp, authResp, sent, reqLeft>>

\* Request, were the registry to hold one call for all pages.
Request_oneCallForAll(t, p) ==
    /\ ~Crashed
    /\ pc[t] = "idle"
    /\ reqLeft > 0
    /\ reqLeft' = reqLeft - 1
    /\ log' = IF log = "nil" THEN "NopLogger" ELSE log
    /\ page' = [page EXCEPT ![t] = p]
    /\ IF \E k \in Pages : group[k] # NoCall
       THEN /\ waitOn' = [waitOn EXCEPT ![t] = group[CHOOSE k \in Pages : group[k] # NoCall]]
            /\ pc' = [pc EXCEPT ![t] = "req_wait"]
            /\ UNCHANGED group
       ELSE /\ group' = [group EXCEPT ![p] = Call(t, "request")]
            /\ pc' = [pc EXCEPT ![t] = "fn_authcookie"]
            /\ UNCHANGED waitOn
    /\ UNCHANGED <<apiVars, Config, client, cookie, reqRes, authRes, dataResp, authResp, sent>>

\* Request(ctx, p, out) up to group.Do(p, fn): the caller joins the call
\* registered for p, or registers its own and starts fn.
Request(t, p) ==
    /\ ~Crashed
    /\ pc[t] = "idle"
    /\ reqLeft > 0
    /\ reqLeft' = reqLeft - 1
    /\ log' = IF log = "nil" THEN "NopLogger" ELSE log
    /\ page' = [page EXCEPT ![t] = p]
    /\ IF group[p] # NoCall
       THEN /\ waitOn' = [waitOn EXCEPT ![t] = group[p]]
            /\ pc' = [pc EXCEPT ![t] = "req_wait"]
            /\ UNCHANGED group
       ELSE /\ group' = [group EXCEPT ![p] = Call(t, "request")]
            /\ pc' = [pc EXCEPT ![t] = "fn_authcookie"]
            /\ UNCHANGED waitOn
    /\ UNCHANGED <<apiVars, Config, client, cookie, reqRes, authRes, dataResp, authResp, sent>>

\* fn calls AuthCookie, which loads the cookie: with a cookie, or with no
\* credential configured, fn goes on to send the data request.
AuthCookieCached(t) ==
    /\ ~Crashed
    /\ pc[t] = "fn_authcookie"
    /\ ~NeedsAuth(cookie) \/ AuthPassword(Config) = ""
    /\ SendData(t, cookie)
    /\ UNCHANGED <<apiVars, Config, log, cookie, group, page, waitOn, reqRes, authRes, dataResp,
                   authResp, reqLeft>>

\* AuthCookie with no cookie cached and a credential configured: it reads
\* the password file, if one is configured, and calls Authorize.
AuthCookieAuthorize(t) ==
    /\ ~Crashed
    /\ pc[t] = "fn_authcookie"
    /\ NeedsAuth(cookie)
    /\ AuthPassword(Config) # ""
    /\ pc' = [pc EXCEPT ![t] = "auth_do"]
    /\ UNCHANGED <<apiVars, Config, log, client, cookie, group, page, waitOn, reqRes, authRes, dataResp,
                   authResp, sent, reqLeft>>

\* os.ReadFile of the password file fails: fn returns the wrapped error.
AuthCookieReadFails(t) ==
    /\ ~Crashed
    /\ pc[t] = "fn_authcookie"
    /\ NeedsAuth(cookie)
    /\ Config.PasswordFile # ""
    /\ reqRes' = [reqRes EXCEPT ![t] = Result(None, ErrReadPasswordFile)]
    /\ pc' = [pc EXCEPT ![t] = "req_fn_done"]
    /\ UNCHANGED <<apiVars, Config, log, client, cookie, group, page, waitOn, authRes, dataResp,
                   authResp, sent, reqLeft>>

\* Authorize up to group.Do("auth", fn): the caller joins the registered
\* authenticate call, or registers its own and sends the POST.
Authorize(t) ==
    /\ ~Crashed
    /\ pc[t] = "auth_do"
    /\ IF group[AuthKey] # NoCall
       THEN /\ waitOn' = [waitOn EXCEPT ![t] = group[AuthKey]]
            /\ pc' = [pc EXCEPT ![t] = "auth_wait"]
            /\ UNCHANGED <<group, sent, client>>
       ELSE /\ group' = [group EXCEPT ![AuthKey] = Call(t, "auth")]
            /\ SetTimeout
            /\ sent' = [sent EXCEPT ![t] = Append(@, PostRequest(AuthPassword(Config)))]
            /\ pc' = [pc EXCEPT ![t] = "auth_exchange"]
            /\ UNCHANGED waitOn
    /\ UNCHANGED <<apiVars, Config, log, cookie, page, reqRes, authRes, dataResp, authResp, reqLeft>>

\* The authenticate exchange ends with response r: the hook has stored the
\* cookie of a redirect, and Authorize's fn returns by the status.
AuthorizeResponse(t, r) ==
    /\ ~Crashed
    /\ pc[t] = "auth_exchange"
    /\ DoEndsWith(Config, r)
    /\ cookie' = fetchAuthCookie(r, cookie)
    /\ authResp' = [authResp EXCEPT ![t] = r]
    /\ authRes' = [authRes EXCEPT ![t] = ClassifyAuth(r)]
    /\ pc' = [pc EXCEPT ![t] = "auth_fn_done"]
    /\ UNCHANGED <<apiVars, Config, log, client, group, page, waitOn, reqRes, dataResp, sent, reqLeft>>

\* singleflight's doCall, were it to keep the entry of a call that is over.
Release_keepsEntry(k, c) == UNCHANGED group

\* singleflight's doCall after fn of call c for key k has returned, under
\* the group's mutex: the waiters are released with the call's result and
\* the entry of k is deleted if it is still c.
Release(k, c) ==
    group' = [group EXCEPT ![k] = IF @ = c THEN NoCall ELSE @]

\* A caller joined to call c gets the call's result: in Authorize when it
\* joined there, in Request when it joined there (a Request for the page
\* "auth" and an Authorize share the key).
AuthorizeDone(t) ==
    /\ ~Crashed
    /\ pc[t] = "auth_fn_done"
    /\ Release(AuthKey, Call(t, "auth"))
    /\ pc' = [u \in Callers |->
                IF u = t \/ (pc[u] = "auth_wait" /\ waitOn[u] = Call(t, "auth"))
                THEN "auth_forget"
                ELSE IF pc[u] = "req_wait" /\ waitOn[u] = Call(t, "auth")
                THEN "req_forget" ELSE pc[u]]
    /\ authRes' = [u \in Callers |->
                IF pc[u] = "auth_wait" /\ waitOn[u] = Call(t, "auth")
                THEN authRes[t] ELSE authRes[u]]
    /\ reqRes' = [u \in Callers |->
                IF pc[u] = "req_wait" /\ waitOn[u] = Call(t, "auth")
                THEN authRes[t] ELSE reqRes[u]]
    /\ waitOn' = [u \in Callers |->
                IF waitOn[u] = Call(t, "auth") THEN NoCall ELSE waitOn[u]]
    /\ UNCHANGED <<apiVars, Config, log, client, cookie, page, dataResp, authResp, sent, reqLeft>>

\* groupRequest after group.Do has returned: c.group.Forget(groupName).
Forget(k) ==
    group' = [group EXCEPT ![k] = NoCall]

AuthorizeForget(t) ==
    /\ ~Crashed
    /\ pc[t] = "auth_forget"
    /\ Forget(AuthKey)
    /\ pc' = [pc EXCEPT ![t] = "auth_ret"]
    /\ UNCHANGED <<apiVars, Config, log, client, cookie, page, waitOn, reqRes, authRes, dataResp,
                   authResp, sent, reqLeft>>

\* Authorize returns an error: AuthCookie returns it and so does fn.
AuthorizeReturnErr(t) ==
    /\ ~Crashed
    /\ pc[t] = "auth_ret"
    /\ AuthFailed(authRes[t])
    /\ reqRes' = [reqRes EXCEPT ![t] = authRes[t]]
    /\ authResp' = [authResp EXCEPT ![t] = NoResponse]
    /\ pc' = [pc EXCEPT ![t] = "req_fn_done"]
    /\ UNCHANGED <<apiVars, Config, log, client, cookie, group, page, waitOn, authRes, dataResp,
                   sent, reqLeft>>

\* Authorize returns *c.cookie.Load(): fn sends the data request with it.
AuthorizeReturnCookie(t) ==
    /\ ~Crashed
    /\ pc[t] = "auth_ret"
    /\ ~AuthFailed(authRes[t])
    /\ cookie # None
    /\ SendData(t, cookie)
    /\ authResp' = [authResp EXCEPT ![t] = NoResponse]
    /\ UNCHANGED <<apiVars, Config, log, cookie, group, page, waitOn, reqRes, authRes, dataResp, reqLeft>>

\* Authorize dereferences c.cookie.Load() with no cookie stored: a nil
\* pointer dereference, which panics.
AuthorizeReturnNil(t) ==
    /\ ~Crashed
    /\ pc[t] = "auth_ret"
    /\ ~AuthFailed(authRes[t])
    /\ cookie = None
    /\ pc' = [pc EXCEPT ![t] = "panicked"]
    /\ UNCHANGED <<apiVars, Config, log, client, cookie, group, page, waitOn, reqRes, authRes, dataResp,
                   authResp, sent, reqLeft>>

\* The data exchange ends with a failure of c.client.Do or with a final
\* response, whose body b fn reads if the status lets it: fn returns.
RequestResponse(t, r, b) ==
    /\ ~Crashed
    /\ pc[t] = "req_exchange"
    /\ r.kind # "redirect"
    /\ DoEndsWith(Config, r)
    /\ ~ReadsBody(r) => b = NoBody
    /\ cookie' = fetchAuthCookie(r, cookie)
    /\ dataResp' = [dataResp EXCEPT ![t] =
                        IF ReadsBody(r) THEN Closed(WithBody(r, b)) ELSE WithBody(r, b)]
    /\ reqRes' = [reqRes EXCEPT ![t] = ClassifyData(WithBody(r, b))]
    /\ pc' = [pc EXCEPT ![t] = "req_fn_done"]
    /\ UNCHANGED <<apiVars, Config, log, client, group, page, waitOn, authRes, authResp, sent, reqLeft>>

\* The data exchange gets a redirect that carries tk: the hook stores the
\* cookie and c.client.Do returns the redirect, whose body fn will read.
RequestRedirect(t, r) ==
    /\ ~Crashed
    /\ pc[t] = "req_exchange"
    /\ r.kind = "redirect"
    /\ DoEndsWith(Config, r)
    /\ cookie' = fetchAuthCookie(r, cookie)
    /\ dataResp' = [dataResp EXCEPT ![t] = r]
    /\ pc' = [pc EXCEPT ![t] = "req_read"]
    /\ UNCHANGED <<apiVars, Config, log, client, group, page, waitOn, reqRes, authRes, authResp, sent, reqLeft>>

\* io.ReadAll of the response's body ends: fn returns the bytes or the error.
RequestReadBody(t, b) ==
    /\ ~Crashed
    /\ pc[t] = "req_read"
    /\ dataResp' = [dataResp EXCEPT ![t] = Closed(WithBody(@, b))]
    /\ reqRes' = [reqRes EXCEPT ![t] = ClassifyData(WithBody(dataResp[t], b))]
    /\ pc' = [pc EXCEPT ![t] = "req_fn_done"]
    /\ UNCHANGED <<apiVars, Config, log, client, cookie, group, page, waitOn, authRes, authResp, sent, reqLeft>>

\* doCall after Request's fn has returned.
RequestDone(t) ==
    /\ ~Crashed
    /\ pc[t] = "req_fn_done"
    /\ Release(page[t], Call(t, "request"))
    /\ pc' = [u \in Callers |->
                IF u = t \/ (pc[u] = "req_wait" /\ waitOn[u] = Call(t, "request"))
                THEN "req_forget"
                ELSE IF pc[u] = "auth_wait" /\ waitOn[u] = Call(t, "request")
                THEN "auth_forget" ELSE pc[u]]
    /\ reqRes' = [u \in Callers |->
                IF pc[u] = "req_wait" /\ waitOn[u] = Call(t, "request")
                THEN reqRes[t] ELSE reqRes[u]]
    /\ waitOn' = [u \in Callers |->
                IF waitOn[u] = Call(t, "request") THEN NoCall ELSE waitOn[u]]
    /\ dataResp' = [dataResp EXCEPT ![t] = NoResponse]
    /\ authRes' = [u \in Callers |->
                IF u = t THEN NoResult
                ELSE IF pc[u] = "auth_wait" /\ waitOn[u] = Call(t, "request")
                THEN reqRes[t] ELSE authRes[u]]
    /\ sent' = [sent EXCEPT ![t] = <<>>]
    /\ UNCHANGED <<apiVars, Config, log, client, cookie, page, authResp, reqLeft>>

\* groupRequest forgets the page and Request returns what Do gave (reqRes):
\* the caller is done with this Request and keeps nothing of it.
RequestForget(t) ==
    /\ ~Crashed
    /\ pc[t] = "req_forget"
    /\ IsOk(reqRes[t]) => reqRes[t].val # None
    /\ Forget(page[t])
    /\ pc' = [pc EXCEPT ![t] = "idle"]
    /\ page' = [page EXCEPT ![t] = None]
    /\ reqRes' = [reqRes EXCEPT ![t] = NoResult]
    /\ UNCHANGED <<apiVars, Config, log, client, cookie, waitOn, authRes, dataResp, authResp, sent, reqLeft>>

Next ==
    \E t \in Callers :
        \/ \E p \in Pages : Request(t, p)
        \/ AuthCookieCached(t)
        \/ AuthCookieAuthorize(t)
        \/ AuthCookieReadFails(t)
        \/ Authorize(t)
        \/ \E r \in Responses : AuthorizeResponse(t, r)
        \/ AuthorizeDone(t)
        \/ AuthorizeForget(t)
        \/ AuthorizeReturnErr(t)
        \/ AuthorizeReturnCookie(t)
        \/ AuthorizeReturnNil(t)
        \/ \E r \in Responses, b \in BodyReads : RequestResponse(t, r, b)
        \/ \E r \in Responses : RequestRedirect(t, r)
        \/ \E b \in BodyReads : RequestReadBody(t, b)
        \/ RequestDone(t)
        \/ RequestForget(t)
        \/ \E cl \in HTTPClients : WithHTTPClient(cl)

Spec == Init /\ [][Next]_vars

\* groupRequest forgets the page and Request, which Do gave a nil value
\* and no error, asserts b.([]byte): the assertion panics on nil.
RequestReturnNil(t) ==
    /\ ~Crashed
    /\ pc[t] = "req_forget"
    /\ IsOk(reqRes[t])
    /\ reqRes[t].val = None
    /\ Forget(page[t])
    /\ pc' = [pc EXCEPT ![t] = "panicked"]
    /\ UNCHANGED <<apiVars, Config, log, client, cookie, page, waitOn, reqRes, authRes,
                   dataResp, authResp, sent, reqLeft>>

\* The callers when the page of a Request may be "auth", the key under
\* which Authorize registers its call.
AuthPageNext ==
    \/ \E t \in Callers :
          \/ \E p \in {AuthKey, "d"} : Request(t, p)
          \/ AuthCookieCached(t)
          \/ AuthCookieAuthorize(t)
          \/ AuthCookieReadFails(t)
          \/ Authorize(t)
          \/ \E r \in Responses : AuthorizeResponse(t, r)
          \/ AuthorizeDone(t)
          \/ AuthorizeForget(t)
          \/ AuthorizeReturnErr(t)
          \/ AuthorizeReturnCookie(t)
          \/ AuthorizeReturnNil(t)
          \/ \E r \in Responses, b \in BodyReads : RequestResponse(t, r, b)
          \/ \E r \in Responses : RequestRedirect(t, r)
          \/ \E b \in BodyReads : RequestReadBody(t, b)
          \/ RequestDone(t)
          \/ RequestForget(t)
          \/ RequestReturnNil(t)
    \/ \E cl \in HTTPClients : WithHTTPClient(cl)

AuthPageSpec == Init /\ [][AuthPageNext]_vars

\* ------------------------------------------------------------ the api calls

\* The number of telegram pages the device serves to one GetP1Telegram.
MaxPages == 4

\* GetP1Telegram loops while i <= 3 or atEnd is false.
LoopPages == 3

\* GetP1Telegram reads buf[len(buf)-7], once len(buf) >= 7.
MarkerOffset == 7

EndMarker == "!"

\* A byte of a slice that make has allocated.
ZeroByte == "NUL"

Zeros(n) == [k \in 1..n |-> ZeroByte]

\* A body of n bytes without '!', with '!' at offset 7 from its end, and
\* with '!' as its last byte only.
Plain(n) == [k \in 1..n |-> "a"]

Marked(n) == [k \in 1..n |-> IF k = n - MarkerOffset + 1 THEN EndMarker ELSE "a"]

MarkedLast(n) == [k \in 1..n |-> IF k = n THEN EndMarker ELSE "a"]

\* The bodies the device may serve as a page of the telegram.
TelegramBodies ==
    { <<>>, Plain(3), Plain(MarkerOffset), Marked(MarkerOffset),
      Marked(MarkerOffset + 1), MarkedLast(MarkerOffset + 1) }

\* The path of page i of the telegram: "V?p=" + strconv.Itoa(i).
TelegramPath(i) == <<"V?p=", i>>

\* The marker, were it looked for in the last byte.
AtEnd_lastByte(b) == b[Len(b)] = EndMarker

\* buf[len(buf)-7] == '!' (the first byte of a Go slice is byte 1 here).
AtEnd(b) == b[Len(b) - MarkerOffset + 1] = EndMarker

\* The condition of GetP1Telegram's for loop.
LoopContinues(i, e) == i <= LoopPages \/ ~e

\* json.Unmarshal of the body into out fails in Request.
ErrDecode == [kind |-> "decode", code |-> 0]

\* The errors Requester.Request may return to an api call.
RequestErrors == {ErrTransport, ErrPasswordRequired, ErrDecode}

\* The utilities, and a value that is none of them.
Electricity == "electricity"

S0 == "s0"

Gas == "gas"

Water == "water"

Utilities == {Electricity, S0, Gas, Water, "x"}

\* The intervals, and a value that is none of them.
PerMin == 60

Per10min == 600

PerHour == 3600

PerDay == 86400

Intervals == {PerMin, Per10min, PerHour, PerDay, PerMin + 1}

\* The page indices GetLog is called with.
LogPages == 0..2

\* What a method that panics gives.
Panic == "panic"

\* Utility.Endpoint, were Gas and Water given each other's segment.
Endpoint_gasWaterSwapped(u) ==
    CASE u = Electricity -> "V"
      [] u = S0 -> "Z"
      [] u = Gas -> "K"
      [] u = Water -> "W"
      [] OTHER -> Panic

\* Utility.Endpoint
Endpoint(u) ==
    CASE u = Electricity -> "V"
      [] u = S0 -> "Z"
      [] u = Gas -> "W"
      [] u = Water -> "K"
      [] OTHER -> Panic

\* Interval.Param
Param(i) ==
    CASE i = PerMin -> "h"
      [] i = Per10min -> "w"
      [] i = PerHour -> "d"
      [] i = PerDay -> "m"
      [] OTHER -> Panic

UnsupportedIntervalError(u, i) ==
    [kind |-> "UnsupportedIntervalError", code |-> 0, Utility |-> u, Interval |-> i]

ErrInvalidLogPage == [kind |-> "ErrInvalidLogPage", code |-> 0]

\* GetLog's first check, were Water left out of it.
Unsupported_gasOnly(u, i) == i = PerMin /\ u = Gas

\* GetLog's first check: the interval the utility does not support.
Unsupported(u, i) == i = PerMin /\ (u = Gas \/ u = Water)

\* GetLog's second check, were it page < 0, which no uint is.
InvalidPage_never(n) == n < 0

\* GetLog's second check: page <= 0, the page n being a uint.
InvalidPage(n) == n <= 0

\* fmt.Sprintf("%s?%c=%d&f=j", u.Endpoint(), i.Param(), page)
LogPath(u, i, n) == <<Endpoint(u), "?", Param(i), "=", n, "&f=j">>

\* The arrays the device may serve at "e", decoded, and the log it serves.
MeterArrays == { <<>>, <<"m1">>, <<"m1", "m2">> }

LogResponses == { "log1", "log2" }

\* GetP1Telegram up to its loop: i := 1, and the loop condition holds.
GetP1Telegram ==
    /\ apiPc = "idle"
    /\ apiOp' = [NoApiOp EXCEPT !.op = "GetP1Telegram"]
    /\ tg' = [i |-> 1, buf |-> <<>>, atEnd |-> FALSE, Data |-> NilSlice]
    /\ apiPc' = "telegram"
    /\ UNCHANGED <<coordVars, requested, served, apiRes>>

\* One pass of the loop, were an empty page not to break it and a page of
\* fewer than 7 bytes to clear atEnd.
TelegramPage_unending(b) ==
    /\ apiPc = "telegram"
    /\ tg.i <= MaxPages
    /\ requested' = Append(requested, TelegramPath(tg.i))
    /\ served' = Append(served, b)
    /\ LET e == Len(b) >= MarkerOffset /\ AtEnd(b)
           data == (IF tg.Data.isNil THEN Zeros(Len(b)) ELSE tg.Data.bytes) \o b
       IN  IF e /\ tg.i = 1
           THEN /\ tg' = [tg EXCEPT !.buf = b, !.atEnd = e, !.Data = Slice(b)]
                /\ apiRes' = [val |-> <<>>, err |-> NilErr]
                /\ apiPc' = "returned"
           ELSE /\ tg' = [i |-> tg.i + 1, buf |-> <<>>, atEnd |-> e, Data |-> Slice(data)]
                /\ IF LoopContinues(tg.i + 1, e)
                   THEN UNCHANGED <<apiPc, apiRes>>
                   ELSE /\ apiRes' = [val |-> <<>>, err |-> NilErr]
                        /\ apiPc' = "returned"
    /\ UNCHANGED <<coordVars, apiOp>>

\* One pass of the loop in which Request gives the body b of page i: the
\* loop breaks on an empty page and on the marker in page 1, else b is
\* appended to res.Data and the loop goes on or ends by its condition.
TelegramPage(b) ==
    /\ apiPc = "telegram"
    /\ tg.i <= MaxPages
    /\ requested' = Append(requested, TelegramPath(tg.i))
    /\ served' = Append(served, b)
    /\ LET e == IF Len(b) >= MarkerOffset THEN AtEnd(b) ELSE tg.atEnd
           data == (IF tg.Data.isNil THEN Zeros(Len(b)) ELSE tg.Data.bytes) \o b
       IN  IF Len(b) = 0
           THEN /\ tg' = [tg EXCEPT !.buf = b]
                /\ apiRes' = [val |-> <<>>, err |-> NilErr]
                /\ apiPc' = "returned"
           ELSE IF Len(b) >= MarkerOffset /\ e /\ tg.i = 1
           THEN /\ tg' = [tg EXCEPT !.buf = b, !.atEnd = e, !.Data = Slice(b)]
                /\ apiRes' = [val |-> <<>>, err |-> NilErr]
                /\ apiPc' = "returned"
           ELSE /\ tg' = [i |-> tg.i + 1, buf |-> <<>>, atEnd |-> e, Data |-> Slice(data)]
                /\ IF LoopContinues(tg.i + 1, e)
                   THEN UNCHANGED <<apiPc, apiRes>>
                   ELSE /\ apiRes' = [val |-> <<>>, err |-> NilErr]
                        /\ apiPc' = "returned"
    /\ UNCHANGED <<coordVars, apiOp>>

\* Request fails for page i: GetP1Telegram returns res and the error.
TelegramPageFails(err) ==
    /\ apiPc = "telegram"
    /\ tg.i <= MaxPages
    /\ requested' = Append(requested, TelegramPath(tg.i))
    /\ apiRes' = [val |-> <<>>, err |-> err]
    /\ apiPc' = "returned"
    /\ UNCHANGED <<coordVars, apiOp, tg, served>>

\* GetMeterReading when Request has decoded the array arr: res[0], which
\* is an index out of range when arr is empty.
GetMeterReading(arr) ==
    /\ apiPc = "idle"
    /\ apiOp' = [NoApiOp EXCEPT !.op = "GetMeterReading"]
    /\ requested' = Append(requested, <<"e">>)
    /\ served' = Append(served, arr)
    /\ IF Len(arr) = 0
       THEN /\ apiPc' = "panicked"
            /\ UNCHANGED apiRes
       ELSE /\ apiRes' = [val |-> <<arr[1]>>, err |-> NilErr]
            /\ apiPc' = "returned"
    /\ UNCHANGED <<coordVars, tg>>

\* GetMeterReading when Request fails.
GetMeterReadingFails(err) ==
    /\ apiPc = "idle"
    /\ apiOp' = [NoApiOp EXCEPT !.op = "GetMeterReading"]
    /\ requested' = Append(requested, <<"e">>)
    /\ apiRes' = [val |-> <<>>, err |-> err]
    /\ apiPc' = "returned"
    /\ UNCHANGED <<coordVars, tg, served>>

\* GetLog(ctx, u, i, n), res being what Request gives when it is called.
GetLog(u, i, n, res) ==
    /\ apiPc = "idle"
    /\ apiOp' = [NoApiOp EXCEPT !.op = "GetLog", !.u = u, !.i = i, !.page = n]
    /\ IF Unsupported(u, i)
       THEN /\ apiRes' = [val |-> <<>>, err |-> UnsupportedIntervalError(u, i)]
            /\ apiPc' = "returned"
            /\ UNCHANGED requested
       ELSE IF InvalidPage(n)
       THEN /\ apiRes' = [val |-> <<>>, err |-> ErrInvalidLogPage]
            /\ apiPc' = "returned"
            /\ UNCHANGED requested
       ELSE IF Endpoint(u) = Panic \/ Param(i) = Panic
       THEN /\ apiPc' = "panicked"
            /\ UNCHANGED <<apiRes, requested>>
       ELSE /\ requested' = Append(requested, LogPath(u, i, n))
            /\ apiRes' = res
            /\ apiPc' = "returned"
    /\ UNCHANGED <<coordVars, tg, served>>

\* ------------------------------------------- enums, log pages and timestamps

\* What a method gives: a value it returns, or the value it panics with.
Returns(v) == [panics |-> FALSE, val |-> v]

Panics(v) == [panics |-> TRUE, val |-> v]

\* invalidInterval(i), the value the Interval methods panic with.
invalidInterval(i) == <<i, " is not a valid youless.Interval">>

\* invalidUtility(u), the value the Utility methods panic with.
invalidUtility(u) == <<u, " is not a valid youless.Utility">>

\* time.Minute and time.Hour, in seconds.
Minute == 60

Hour == 3600

\* Interval.Delta
Delta(i) ==
    IF i \in {PerMin, Per10min, PerHour, PerDay}
    THEN Returns(i)
    ELSE Panics(invalidInterval(i))

\* Interval.Duration, were PerHour given ten minutes.
Duration_hourIsTenMinutes(i) ==
    CASE i = PerMin -> Returns(Minute)
      [] i = Per10min -> Returns(10 * Minute)
      [] i = PerHour -> Returns(10 * Minute)
      [] i = PerDay -> Returns(24 * Hour)
      [] OTHER -> Panics(invalidInterval(i))

\* Interval.Duration
Duration(i) ==
    CASE i = PerMin -> Returns(Minute)
      [] i = Per10min -> Returns(10 * Minute)
      [] i = PerHour -> Returns(Hour)
      [] i = PerDay -> Returns(24 * Hour)
      [] OTHER -> Panics(invalidInterval(i))

\* Interval.String
IntervalString(i) ==
    CASE i = PerMin -> "min"
      [] i = Per10min -> "10min"
      [] i = PerHour -> "hour"
      [] i = PerDay -> "day"
      [] OTHER -> Panic

\* Utility.String
UtilityString(u) ==
    IF u \in {Electricity, S0, Gas, Water} THEN u ELSE Panic

\* The method f of the Interval i.
IntervalMethod(f, i) ==
    CASE f = "Delta" -> Delta(i)
      [] f = "Duration" -> Duration(i)
      [] f = "Param" -> IF Param(i) = Panic THEN Panics(invalidInterval(i))
                                             ELSE Returns(Param(i))
      [] f = "String" -> IF IntervalString(i) = Panic
                         THEN Panics(invalidInterval(i))
                         ELSE Returns(IntervalString(i))

\* The method f of the Utility u.
UtilityMethod(f, u) ==
    CASE f = "Endpoint" -> IF Endpoint(u) = Panic THEN Panics(invalidUtility(u))
                                                  ELSE Returns(Endpoint(u))
      [] f = "String" -> IF UtilityString(u) = Panic THEN Panics(invalidUtility(u))
                         ELSE Returns(UtilityString(u))

\* A time.Time: the instant sec seconds after the instant named base.
PageStart == "2024-01-28T12:00:00"

ZeroTime == "0001-01-01T00:00:00"

Time(base, sec) == [base |-> base, sec |-> sec]

\* Time.Add, d in seconds.
Add(t, d) == [t EXCEPT !.sec = @ + d]

\* The Timestamp fields of a log page: one in LogTimeLayout, one not.
LogTimestamps == {PageStart, "28-01-2024 12:00"}

\* time.Parse(LogTimeLayout, ts) with its error dropped: the zero time
\* when ts is not in the layout.
ParseLogTime(ts) == IF ts = PageStart THEN Time(PageStart, 0) ELSE Time(ZeroTime, 0)

\* The raw values of a log page.
RawValues == {"", "*", "12", " 7 ", "x"}

\* strings.TrimSpace
TrimSpace(v) == IF v = " 7 " THEN "7" ELSE v

\* strconv.ErrSyntax in a *strconv.NumError
ErrSyntax == [kind |-> "strconv.ErrSyntax", code |-> 0]

\* strconv.ParseInt(s, 10, 0)
ParseInt(s) ==
    CASE s = "12" -> [n |-> 12, err |-> NilErr]
      [] s = "7" -> [n |-> 7, err |-> NilErr]
      [] OTHER -> [n |-> 0, err |-> ErrSyntax]

\* The longest page of raw values.
MaxRaw == 3

\* The decoded log pages TimedValues and TimeOfValue are called on.
LogPageValues ==
    [Timestamp : LogTimestamps, Interval : Intervals,
     RawValues : UNION { [1..n -> RawValues] : n \in 0..MaxRaw }]

\* The test that ends TimedValues' loop, were it v == "" at any index.
SkipsSlot_anyEmpty(raw, idx) == raw[idx] = ""

\* The test that ends TimedValues' loop: i == end && v == "", idx being i + 1.
SkipsSlot(raw, idx) == idx = Len(raw) /\ raw[idx] = ""

\* The test of TimedValues for an inactive slot, were "*" left out of it.
IsInactive_emptyOnly(v) == v = ""

\* The test of TimedValues for an inactive slot.
IsInactive(v) == v = "" \/ v = "*"

\* The time of the slot after the one at tm, were inactive slots to take
\* no time.
NextSlot_activeOnly(tm, dt, v) == IF IsInactive(v) THEN tm ELSE Add(tm, dt)

\* The time of the slot after the one at tm: tm = tm.Add(dt).
NextSlot(tm, dt, v) == Add(tm, dt)

\* What TimedValues returns at a value that does not parse, were it nil
\* with the error.
ParseFailure_dropsSamples(res, err) == [val |-> <<>>, err |-> err]

\* What TimedValues returns at a value that does not parse: res and the error.
ParseFailure(res, err) == [val |-> res, err |-> err]

\* The loop of TimedValues from the raw value at idx on, tm being the time
\* of that slot and res the samples so far.
RECURSIVE TimedValuesLoop(_, _, _, _, _)
TimedValuesLoop(raw, dt, idx, tm, res) ==
    IF idx > Len(raw) THEN [val |-> res, err |-> NilErr]
    ELSE IF SkipsSlot(raw, idx) THEN [val |-> res, err |-> NilErr]
    ELSE LET v == raw[idx]
             tv == [Time |-> tm, Value |-> 0, Inactive |-> FALSE]
             next == NextSlot(tm, dt, v)
             p == ParseInt(TrimSpace(v))
         IN  IF IsInactive(v)
             THEN TimedValuesLoop(raw, dt, idx + 1, next,
                                  Append(res, [tv EXCEPT !.Inactive = TRUE]))
             ELSE IF p.err # NilErr
             THEN ParseFailure(res, p.err)
             ELSE TimedValuesLoop(raw, dt, idx + 1, next,
                                  Append(res, [tv EXCEPT !.Value = p.n]))

\* LogResponse.TimedValues: r.Interval.Duration() panics before the loop.
TimedValues(r) ==
    IF Duration(r.Interval).panics
    THEN Panics(Duration(r.Interval).val)
    ELSE Returns(TimedValuesLoop(r.RawValues, Duration(r.Interval).val, 1,
                                 ParseLogTime(r.Timestamp), <<>>))

\* LogResponse.TimeOfValue, were the index not multiplied by the interval.
TimeOfValue_unscaled(r, k) == Returns(Add(ParseLogTime(r.Timestamp), k))

\* LogResponse.TimeOfValue
TimeOfValue(r, k) ==
    IF k = 0 THEN Returns(ParseLogTime(r.Timestamp))
    ELSE Returns(Add(ParseLogTime(r.Timestamp), k * r.Interval))

\* i.Delta(), i.Duration(), i.Param() or i.String(): it returns a value or
\* panics with one.
CallIntervalMethod(f, i) ==
    /\ apiPc = "idle"
    /\ apiOp' = [NoApiOp EXCEPT !.op = "Interval", !.i = i, !.arg = <<f>>]
    /\ apiRes' = [val |-> <<IntervalMethod(f, i).val>>, err |-> NilErr]
    /\ apiPc' = IF IntervalMethod(f, i).panics THEN "panicked" ELSE "returned"
    /\ UNCHANGED <<coordVars, tg, requested, served>>

\* u.Endpoint() or u.String()
CallUtilityMethod(f, u) ==
    /\ apiPc = "idle"
    /\ apiOp' = [NoApiOp EXCEPT !.op = "Utility", !.u = u, !.arg = <<f>>]
    /\ apiRes' = [val |-> <<UtilityMethod(f, u).val>>, err |-> NilErr]
    /\ apiPc' = IF UtilityMethod(f, u).panics THEN "panicked" ELSE "returned"
    /\ UNCHANGED <<coordVars, tg, requested, served>>

\* r.TimedValues() on a page r
CallTimedValues ==
    /\ apiPc = "idle"
    /\ \E r \in LogPageValues :
          LET out == TimedValues(r)
          IN  /\ apiOp' = [NoApiOp EXCEPT !.op = "TimedValues", !.arg = <<r>>]
              /\ apiRes' = [val |-> <<out.val>>, err |-> NilErr]
              /\ apiPc' = IF out.panics THEN "panicked" ELSE "returned"
    /\ UNCHANGED <<coordVars, tg, requested, served>>

\* r.TimeOfValue(k) on a page r
CallTimeOfValue ==
    /\ apiPc = "idle"
    /\ \E r \in LogPageValues, k \in 0..MaxRaw :
          LET out == TimeOfValue(r, k)
          IN  /\ apiOp' = [NoApiOp EXCEPT !.op = "TimeOfValue", !.arg = <<r, k>>]
              /\ apiRes' = [val |-> <<out.val>>, err |-> NilErr]
              /\ apiPc' = IF out.panics THEN "panicked" ELSE "returned"
    /\ UNCHANGED <<coordVars, tg, requested, served>>

\* A time.Time in UTC at minute resolution.
Date(y, mo, d, h, mi) == [Year |-> y, Month |-> mo, Day |-> d, Hour |-> h, Minute |-> mi]

\* The factor of the year in ToTimestamp.
YearFactor == 100000000

\* A uint64 in three limbs, a * YearFactor^2 + b * YearFactor + c, and 2^64
\* in the same limbs.
U64(a, b, c) == [a |-> a, b |-> b, c |-> c]

TwoTo64 == U64(1844, 67440737, 9551616)

\* The times ToTimestamp is called with.
CalendarTimes ==
    { Date(y, mo, d, h, mi) : y \in {1969, 1999, 2000, 2009, 2010, 2024, 2068, 2069, 2100},
                              mo \in {1, 2, 12}, d \in {1, 28},
                              h \in {0, 12, 23}, mi \in {0, 59} }

\* The numbers ParseTimestamp is called with.
TimestampNumbers ==
    { U64(0, b, c) : b \in {0, 2, 9, 10, 24, 68, 69, 99, 100},
                     c \in {0, 1010060, 1012400, 1281200, 2290000, 2300000,
                            12312359, 13010000, 40128120} }
      \cup { U64(TwoTo64.a, TwoTo64.b - 1, TwoTo64.c + 1281200) }

\* ToTimestamp: the sum as an int of 64 bits, which uint64() wraps by 2^64
\* when it is negative.
ToTimestamp(t) ==
    LET y == t.Year - 2000
        rest == t.Month * 1000000 + t.Day * 10000 + t.Hour * 100 + t.Minute
        c == TwoTo64.c + rest
    IN  IF y >= 0
        THEN U64(0, y, rest)
        ELSE U64(TwoTo64.a, TwoTo64.b + y + (c \div YearFactor), c % YearFactor)

\* The decimal digits of k, without and with leading zeros to 8 places.
RECURSIVE Digits(_)
Digits(k) == IF k < 10 THEN <<k>> ELSE Append(Digits(k \div 10), k % 10)

Pad8(k) == [j \in 1..8 |-> (k \div (10 ^ (8 - j))) % 10]

\* strconv.FormatUint(n, 10), as the sequence of its digits.
FormatUint(n) ==
    IF n.a > 0 THEN Digits(n.a) \o Pad8(n.b) \o Pad8(n.c)
    ELSE IF n.b > 0 THEN Digits(n.b) \o Pad8(n.c)
    ELSE Digits(n.c)

\* The days of month mo of year y.
DaysIn(mo, y) ==
    CASE mo \in {4, 6, 9, 11} -> 30
      [] mo = 2 -> IF y % 4 = 0 /\ (y % 100 # 0 \/ y % 400 = 0) THEN 29 ELSE 28
      [] OTHER -> 31

\* The error of time.Parse.
ErrParseTime == [kind |-> "time.ParseError", code |-> 0]

\* time.Parse(TimestampLayout, s), s a sequence of digits: five fields of
\* two digits and nothing after them, a year from 69 on being of 19yy.
TimeParse(s) ==
    IF Len(s) # 10
    THEN [t |-> Date(1, 1, 1, 0, 0), err |-> ErrParseTime]
    ELSE LET yy == 10 * s[1] + s[2]
             mo == 10 * s[3] + s[4]
             d == 10 * s[5] + s[6]
             h == 10 * s[7] + s[8]
             mi == 10 * s[9] + s[10]
             y == IF yy >= 69 THEN 1900 + yy ELSE 2000 + yy
         IN  IF mo \in 1..12 /\ d \in 1..DaysIn(mo, y) /\ h < 24 /\ mi < 60
             THEN [t |-> Date(y, mo, d, h, mi), err |-> NilErr]
             ELSE [t |-> Date(1, 1, 1, 0, 0), err |-> ErrParseTime]

\* ParseTimestamp, which gives what parseTimestamp gives.
ParseTimestamp(n) == TimeParse(FormatUint(n))

\* ParseTimestamp(n)
CallParseTimestamp(n) ==
    /\ apiPc = "idle"
    /\ apiOp' = [NoApiOp EXCEPT !.op = "ParseTimestamp", !.arg = <<n>>]
    /\ apiRes' = [val |-> <<ParseTimestamp(n).t>>, err |-> ParseTimestamp(n).err]
    /\ apiPc' = "returned"
    /\ UNCHANGED <<coordVars, tg, requested, served>>

\* ToTimestamp(t)
CallToTimestamp(t) ==
    /\ apiPc = "idle"
    /\ apiOp' = [NoApiOp EXCEPT !.op = "ToTimestamp", !.arg = <<t>>]
    /\ apiRes' = [val |-> <<ToTimestamp(t)>>, err |-> NilErr]
    /\ apiPc' = "returned"
    /\ UNCHANGED <<coordVars, tg, requested, served>>

\* The caller has its result and is ready for its next api call.
ApiReturn ==
    /\ apiPc = "returned"
    /\ apiPc' = "idle"
    /\ apiOp' = NoApiOp
    /\ tg' = [i |-> 0, buf |-> <<>>, atEnd |-> FALSE, Data |-> NilSlice]
    /\ requested' = <<>>
    /\ served' = <<>>
    /\ apiRes' = [val |-> <<>>, err |-> [kind |-> "unset", code |-> 0]]
    /\ UNCHANGED coordVars

ApiNext ==
    \/ GetP1Telegram
    \/ \E b \in TelegramBodies : TelegramPage(b)
    \/ \E err \in RequestErrors : TelegramPageFails(err)
    \/ \E arr \in MeterArrays : GetMeterReading(arr)
    \/ \E err \in RequestErrors : GetMeterReadingFails(err)
    \/ \E u \in Utilities, i \in Intervals, n \in LogPages :
         \E res \in { [val |-> <<l>>, err |-> NilErr] : l \in LogResponses }
                    \cup { [val |-> <<>>, err |-> e] : e \in RequestErrors } :
            GetLog(u, i, n, res)
    \/ \E f \in {"Delta", "Duration", "Param", "String"}, i \in Intervals :
         CallIntervalMethod(f, i)
    \/ \E f \in {"Endpoint", "String"}, u \in Utilities : CallUtilityMethod(f, u)
    \/ CallTimedValues
    \/ CallTimeOfValue
    \/ \E n \in TimestampNumbers : CallParseTimestamp(n)
    \/ \E t \in CalendarTimes : CallToTimestamp(t)
    \/ ApiReturn

ApiSpec == Init /\ [][ApiNext]_vars

\* The Request of a pass of GetP1Telegram's loop returns, with a body or
\* with an error.
TelegramStep ==
    \/ \E b \in TelegramBodies : TelegramPage(b)
    \/ \E err \in RequestErrors : TelegramPageFails(err)

\* A client that calls GetP1Telegram and nothing else, every Request of
\* the call returning.
TelegramNext == GetP1Telegram \/ TelegramStep \/ ApiReturn

TelegramSpec == Init /\ [][TelegramNext]_vars /\ WF_vars(TelegramStep)

\* ------------------------------------------------------ what the claims read

\* The callers whose physical exchange for key k is in flight: c.client.Do
\* has been called and fn has not yet the whole response.
InFlight(k) ==
    IF k = AuthKey
    THEN { t \in Callers : pc[t] = "auth_exchange" }
    ELSE { t \in Callers : pc[t] \in {"req_exchange", "req_read"} /\ page[t] = k }

Posts(s) == SelectSeq(s, LAMBDA q : q.method = "POST")

Gets(s) == SelectSeq(s, LAMBDA q : q.method = "GET")

\* Whether a credential is configured.
HasCredential == Config.Password # "" \/ Config.PasswordFile # ""

\* The bodies of ss one after the other.
RECURSIVE Concat(_)
Concat(ss) == IF ss = <<>> THEN <<>> ELSE Head(ss) \o Concat(Tail(ss))

\* Where a caller is while it is inside Authorize.
InAuthorize == {"auth_do", "auth_wait", "auth_exchange", "auth_fn_done", "auth_forget", "auth_ret"}

\* ----------------------------------------------------------------- claims

\* C1: for every dedup key, at most one physical exchange started through
\* Request/groupRequest with that key is in flight at any instant, also
\* when a call is issued while earlier callers are still returning and
\* clearing the registry entry.
C1_OneExchangePerKey ==
    \A k \in Keys : Cardinality(InFlight(k)) <= 1

\* C2: a call issued for a page while another call's exchange for that page
\* is in flight joins that exchange (so one transport invocation serves the
\* two calls), and a joined caller gets the outcome of the call it joined.
C2_SecondCallJoins ==
    [][\A t \in Callers :
        /\ \A p \in Pages :
            (pc[t] = "idle" /\ pc'[t] # "idle" /\ page'[t] = p /\ InFlight(p) # {})
                => (pc'[t] = "req_wait" /\ waitOn'[t].owner \in InFlight(p))
        /\ (pc[t] = "req_wait" /\ pc'[t] = "req_forget")
                => reqRes'[t] = reqRes[waitOn[t].owner]
      ]_vars

\* C3: when the exchange for a page has ended and its call completes (with
\* a value or an error), the registry holds no entry for the page, so that
\* the next Request for the page finds none, performs an exchange of its
\* own and returns the outcome of that one.
C3_NoEntryAfterCompletion ==
    [][\A t \in Callers :
        (pc[t] = "req_fn_done" /\ dataResp[t].kind # "none" /\ pc'[t] = "req_forget")
            => group'[page[t]] = NoCall
      ]_vars

\* C4: with a credential configured, a Request that finds no cookie cached
\* sends no data request before Authorize has returned to it; it sends its
\* data request only with a cookie, after the authenticate exchange it ran
\* or joined has succeeded; when authentication fails, fn returns that very
\* error and the Request has sent no data request.
C4_AuthBeforeData ==
    /\ [](\A t \in Callers :
            /\ (HasCredential /\ Len(Gets(sent[t])) > 0) =>
                /\ Gets(sent[t])[1].cookie # None
                /\ sent[t][Len(sent[t])].method = "GET"
                /\ IsSet(authRes[t]) => IsOk(authRes[t])
            /\ (IsErr(authRes[t]) /\ pc[t] \notin InAuthorize) =>
                /\ pc[t] = "req_fn_done"
                /\ reqRes[t] = authRes[t]
                /\ Len(Gets(sent[t])) = 0)
    /\ [][\A t \in Callers :
            (HasCredential /\ pc[t] = "fn_authcookie" /\ cookie = None /\ pc'[t] # pc[t])
                => (pc'[t] \in {"auth_do", "req_fn_done"} /\ sent'[t] = sent[t])
         ]_vars

C4_Witness ==
    \E t \in Callers :
        /\ pc[t] = "req_fn_done"
        /\ authRes[t].err = ErrInvalidPassword
        /\ reqRes[t].err = ErrInvalidPassword
        /\ Len(sent[t]) = 1 /\ sent[t][1].method = "POST"

\* C5: when every caller is in its first Request on a client with a
\* credential and no authentication has failed, one authenticate exchange
\* has been performed in all.
C5_OneAuthExchange ==
    ( /\ HasCredential
      /\ reqLeft = MaxRequests - NumCallers
      /\ \A t \in Callers : pc[t] # "idle"
      /\ \A t \in Callers : IsSet(authRes[t]) => (IsOk(authRes[t]) /\ cookie # None) )
    => Cardinality({ t \in Callers : Len(Posts(sent[t])) > 0 }) <= 1

\* C6, as the spec has it: a Request whose data fetch is answered with 403
\* on a client with a credential recovers, and fn returns a payload.
C6_RecoversFrom403 ==
    \A t \in Callers :
        (HasCredential /\ pc[t] = "req_fn_done" /\ dataResp[t].status = StatusForbidden)
            => IsOk(reqRes[t])

\* C6, amended: a data fetch answered with 403 is not recovered, fn returns
\* ErrPasswordRequired and nothing more is sent; a Request sends at most one
\* authenticate request and at most one data request, the authenticate
\* request first; and a Request that finds a cookie cached sends its data
\* request with that cookie without authenticating.
C6_AuthOnlyBeforeFetch ==
    /\ [](\A t \in Callers :
            /\ Len(Posts(sent[t])) <= 1
            /\ Len(Gets(sent[t])) <= 1
            /\ Len(Gets(sent[t])) = 1 => sent[t][Len(sent[t])].method = "GET"
            /\ dataResp[t].status = StatusForbidden =>
                (pc[t] = "req_fn_done" /\ reqRes[t] = Result(None, ErrPasswordRequired)))
    /\ [][\A t \in Callers :
            (pc[t] = "fn_authcookie" /\ cookie # None /\ pc'[t] # pc[t])
                => (pc'[t] = "req_exchange" /\ sent'[t] = <<GetRequest(page[t], cookie)>>)
         ]_vars

C6_Witness ==
    \E t \in Callers :
        /\ HasCredential
        /\ pc[t] = "req_fn_done"
        /\ dataResp[t].status = StatusForbidden
        /\ reqRes[t].err = ErrPasswordRequired
        /\ Len(sent[t]) = 1 /\ sent[t][1].cookie # None

\* C7: fn's result for the response of the data exchange: 403 gives
\* ErrPasswordRequired, any other status above 400 gives
\* UnexpectedResponseError with that status, a 2xx response whose body is
\* read gives the body's bytes, a failed exchange or read gives the
\* transport error; and the Request has sent its data request once.
C7_DataClassification ==
    \A t \in Callers :
        (pc[t] = "req_fn_done" /\ dataResp[t].kind # "none") =>
            LET r == dataResp[t] IN
            /\ r.kind = "error" => reqRes[t] = [val |-> None, err |-> ErrTransport]
            /\ (r.kind # "error" /\ r.status = 403) =>
                    reqRes[t] = [val |-> None, err |-> ErrPasswordRequired]
            /\ (r.kind # "error" /\ r.status > 400 /\ r.status # 403) =>
                    reqRes[t] = [val |-> None, err |-> [kind |-> "UnexpectedResponseError", code |-> r.status]]
            /\ (r.kind # "error" /\ r.status \in 200..299 /\ r.readOK) =>
                    reqRes[t] = [val |-> r.body, err |-> NilErr]
            /\ (r.kind # "error" /\ r.status \in 200..299 /\ ~r.readOK) =>
                    reqRes[t] = [val |-> None, err |-> ErrTransport]
            /\ Len(Gets(sent[t])) = 1

C7_Witness ==
    \E t, u \in Callers :
        /\ pc[t] = "req_fn_done" /\ dataResp[t].status = 403
        /\ reqRes[t].err = ErrPasswordRequired
        /\ pc[u] = "req_fn_done" /\ dataResp[u].status = 200
        /\ reqRes[u] = [val |-> "b2", err |-> NilErr]

\* C8: the authenticate request is a POST of the form field w=<password>
\* to the base URL; a 403 response gives ErrInvalidPassword, any other
\* status above 400 gives UnexpectedResponseError with that status; and
\* after a failed authentication no cookie comes back to fn, which sends
\* no data request.
C8_AuthExchange ==
    \A t \in Callers :
        /\ \A i \in DOMAIN sent[t] :
            sent[t][i].method = "POST" =>
                /\ sent[t][i].url = <<BaseURL>>
                /\ sent[t][i].form =
                     <<"w", IF Config.PasswordFile # "" THEN FileContents ELSE Config.Password>>
        /\ (authResp[t].kind = "final" /\ authResp[t].status = 403) =>
                authRes[t] = [val |-> None, err |-> ErrInvalidPassword]
        /\ (authResp[t].kind = "final" /\ authResp[t].status > 400 /\ authResp[t].status # 403) =>
                authRes[t] = [val |-> None, err |-> [kind |-> "UnexpectedResponseError", code |-> authResp[t].status]]
        /\ (IsSet(authRes[t]) /\ authRes[t].err.kind \in {"ErrInvalidPassword", "UnexpectedResponseError"}) =>
                /\ Len(Gets(sent[t])) = 0
                /\ pc[t] \in InAuthorize \cup {"req_fn_done"}

C8_Witness ==
    \E t, u \in Callers :
        /\ authResp[t].status = 403 /\ authRes[t].err = ErrInvalidPassword
        /\ sent[t] = <<PostRequest("filepw")>>
        /\ pc[u] = "req_fn_done" /\ reqRes[u].err = [kind |-> "UnexpectedResponseError", code |-> 500]
        /\ authRes[u] = reqRes[u]

\* C9: once Authorize has returned to a caller, the caller either has an
\* error (also when the exchange ended with a non-error status and no
\* cookie was captured) or has the cached cookie, with which fn sends the
\* data request.
C9_ErrorOrCookie ==
    \A t \in Callers :
        (IsSet(authRes[t]) /\ pc[t] \notin InAuthorize) =>
            \/ IsErr(reqRes[t]) /\ reqRes[t] = authRes[t]
            \/ Len(Gets(sent[t])) = 1 /\ Gets(sent[t])[1].cookie # None

\* C10, as the spec has it: every response that ends an exchange and
\* carries a cookie named tk, a final response as well as a redirect,
\* replaces the cached cookie by that cookie.
C10_AnyResponseCaptures ==
    [][\A t \in Callers :
        /\ (pc[t] = "auth_exchange" /\ pc'[t] # pc[t] /\ authResp'[t].tk # None)
                => cookie' = authResp'[t].tk
        /\ (pc[t] = "req_exchange" /\ pc'[t] # pc[t] /\ dataResp'[t].tk # None)
                => cookie' = dataResp'[t].tk
      ]_vars

\* C10, amended: a redirect response that the http.Client is about to
\* follow and that carries a cookie named tk replaces the cached cookie by
\* that cookie, whatever was cached; a response that the http.Client
\* returns without asking CheckRedirect leaves the cached cookie as it was.
C10_RedirectCaptures ==
    [][\A t \in Callers :
        /\ (pc[t] = "auth_exchange" /\ pc'[t] # pc[t]) =>
                cookie' = IF authResp'[t].kind = "redirect" THEN authResp'[t].tk ELSE cookie
        /\ (pc[t] = "req_exchange" /\ pc'[t] # pc[t]) =>
                cookie' = IF dataResp'[t].kind = "redirect" THEN dataResp'[t].tk ELSE cookie
      ]_vars

C10_Witness ==
    \E t, u \in Callers :
        /\ dataResp[t].kind = "redirect" /\ dataResp[t].tk = "c2" /\ cookie = "c2"
        /\ sent[t][Len(sent[t])].cookie = "c1"
        /\ dataResp[u].kind = "final" /\ dataResp[u].tk = "c1"

\* C11: a Request sends at most one authenticate request and at most one
\* data request; a caller that is joined to a call sends nothing; after an
\* exchange of the Request has failed nothing more is sent for it; and the
\* Request turns to Authorize only when c.cookie.Load gave it no cookie,
\* and sends its authenticate request only if it has sent nothing yet.
C11_NoRetry ==
    /\ [](\A t \in Callers :
            /\ Len(Posts(sent[t])) <= 1
            /\ Len(Gets(sent[t])) <= 1
            /\ pc[t] \in {"req_wait", "req_forget", "idle"} => sent[t] = <<>>
            /\ (dataResp[t].kind # "none" /\ pc[t] = "req_fn_done") => Len(Gets(sent[t])) = 1
            /\ (IsErr(authRes[t]) /\ authResp[t].kind # "none") =>
                    (Len(Posts(sent[t])) = 1 /\ Len(Gets(sent[t])) = 0))
    /\ [][\A t \in Callers :
            /\ (pc[t] = "fn_authcookie" /\ pc'[t] = "auth_do") => cookie = None
            /\ (Len(sent'[t]) > Len(sent[t]) /\ sent'[t][Len(sent'[t])].method = "POST")
                    => (pc[t] = "auth_do" /\ sent[t] = <<>>)
            /\ (Len(sent'[t]) > Len(sent[t]) /\ sent'[t][Len(sent'[t])].method = "GET")
                    => (Gets(sent[t]) = <<>> /\ ~IsErr(authRes[t]))
            /\ (pc[t] = "req_fn_done" /\ IsErr(reqRes[t])) => sent'[t] \in {sent[t], <<>>}
         ]_vars

C11_Witness ==
    \E t \in Callers :
        /\ pc[t] = "req_fn_done"
        /\ dataResp[t].kind = "error"
        /\ reqRes[t].err = ErrTransport
        /\ Len(sent[t]) = 2
        /\ sent[t][1].method = "POST" /\ sent[t][2].method = "GET"

\* C12: an exchange that fails by timeout or cancellation (c.client.Do or
\* io.ReadAll returns an error) ends its fn with the transport-class error;
\* when the call ends, every caller joined to it gets that same error; and
\* nothing is sent again, by the owner or by a joined caller.
C12_TimeoutFailsAllJoined ==
    /\ [](\A t \in Callers :
            /\ (pc[t] = "req_fn_done" /\ dataResp[t].kind # "none"
                    /\ (dataResp[t].kind = "error" \/ (ReadsBody(dataResp[t]) /\ ~dataResp[t].readOK)))
                => (reqRes[t] = [val |-> None, err |-> ErrTransport] /\ Len(Gets(sent[t])) = 1)
            /\ (authResp[t].kind = "error" /\ IsSet(authRes[t]))
                => (authRes[t] = [val |-> None, err |-> ErrTransport] /\ Len(sent[t]) = 1))
    /\ [][\A t, u \in Callers :
            /\ (pc[t] = "req_fn_done" /\ pc'[t] = "req_forget" /\ reqRes[t].err = ErrTransport
                    /\ pc[u] = "req_wait" /\ waitOn[u] = [owner |-> t, fn |-> "request"])
                => (pc'[u] = "req_forget" /\ reqRes'[u] = [val |-> None, err |-> ErrTransport]
                        /\ sent'[u] = <<>> /\ sent'[t] = <<>>)
            /\ (pc[t] = "auth_fn_done" /\ pc'[t] = "auth_forget" /\ authRes[t].err = ErrTransport
                    /\ pc[u] = "auth_wait" /\ waitOn[u] = [owner |-> t, fn |-> "auth"])
                => (pc'[u] = "auth_forget" /\ authRes'[u] = [val |-> None, err |-> ErrTransport]
                        /\ sent'[u] = sent[u])
         ]_vars

C12_Witness ==
    \E t, u \in Callers :
        /\ pc[t] = "req_fn_done"
        /\ dataResp[t].kind = "error"
        /\ reqRes[t].err = ErrTransport
        /\ pc[u] = "req_wait"
        /\ waitOn[u] = [owner |-> t, fn |-> "request"]

\* C13: with a cookie cached or no credential configured, a Request for a
\* page that no other caller is in a Request for registers a call of its
\* own, whatever is in flight for other pages, and leaves their entries as
\* they are; and each step of such a call up to the return of its fn is
\* enabled whatever the other callers do or fail to do.
C13_KeysIndependent ==
    /\ [](\A u \in Callers :
            (cookie # None \/ ~HasCredential) =>
                /\ pc[u] = "fn_authcookie" => ENABLED AuthCookieCached(u)
                /\ pc[u] = "req_exchange" =>
                        ENABLED (\E r \in Responses, b \in BodyReads : RequestResponse(u, r, b))
                /\ pc[u] = "req_read" => ENABLED (\E b \in BodyReads : RequestReadBody(u, b))
                /\ pc[u] = "req_fn_done" => ENABLED RequestDone(u))
    /\ [][\A u \in Callers, p \in Pages :
            (pc[u] = "idle" /\ pc'[u] # "idle" /\ page'[u] = p
                    /\ \A v \in Callers \ {u} : page[v] # p)
                => /\ pc'[u] = "fn_authcookie"
                   /\ group'[p] = [owner |-> u, fn |-> "request"]
                   /\ \A k \in Keys \ {p} : group'[k] = group[k]
         ]_vars

C13_Witness ==
    \E t, u \in Callers :
        /\ pc[t] = "req_exchange" /\ page[t] = "d"
        /\ pc[u] = "req_exchange" /\ page[u] = "e"
        /\ group["d"].owner = t /\ group["e"].owner = u

\* C14: the cached cookie is always a whole cookie (or nil); it changes only
\* in a step in which a response is captured, and every captured response
\* makes its cookie the cached one at the step that completes it, whatever
\* exchanges, started before or after, are still in flight or have
\* completed before.
C14_LastWriterWins ==
    /\ [](cookie \in Cookies \cup {None})
    /\ [][/\ cookie' # cookie =>
                \E t \in Callers :
                    \/ /\ pc[t] = "auth_exchange" /\ pc'[t] = "auth_fn_done"
                       /\ authResp'[t].kind = "redirect" /\ cookie' = authResp'[t].tk
                    \/ /\ pc[t] = "req_exchange" /\ pc'[t] = "req_read"
                       /\ dataResp'[t].kind = "redirect" /\ cookie' = dataResp'[t].tk
          /\ \A t \in Callers :
                /\ (pc[t] = "auth_exchange" /\ pc'[t] # pc[t] /\ authResp'[t].kind = "redirect")
                        => cookie' = authResp'[t].tk
                /\ (pc[t] = "req_exchange" /\ pc'[t] # pc[t] /\ dataResp'[t].kind = "redirect")
                        => cookie' = dataResp'[t].tk
         ]_vars

C14_Witness ==
    \E t, u \in Callers :
        /\ sent[t] = <<GetRequest(page[t], None)>>
        /\ sent[u] = <<GetRequest(page[u], None)>>
        /\ dataResp[t].kind = "redirect" /\ dataResp[t].tk = "c1"
        /\ dataResp[u].kind = "redirect" /\ dataResp[u].tk = "c2"
        /\ cookie = "c2"

\* C15: GetMeterReading, once Request has decoded the served array, returns
\* the array's single element, and returns an error (it does not fault)
\* when the array is empty.
C15_EmptyArrayIsError ==
    (apiOp.op = "GetMeterReading" /\ Len(served) = 1) =>
        /\ apiPc = "returned"
        /\ IF Len(served[1]) = 0
           THEN apiRes.err.kind \notin {"nil", "unset"}
           ELSE apiRes.err.kind = "nil" /\ apiRes.val = <<served[1][1]>>

\* C16: when page 1 of the telegram has '!' at offset 7 from its end,
\* GetP1Telegram returns with Data equal to the body of page 1 and has
\* requested page 1 and nothing else.
C16_EndOnFirstPage ==
    (apiOp.op = "GetP1Telegram" /\ Len(served) >= 1
            /\ Len(served[1]) >= 7 /\ served[1][Len(served[1]) - 6] = "!") =>
        /\ apiPc = "returned"
        /\ apiRes.err.kind = "nil"
        /\ tg.Data = [isNil |-> FALSE, bytes |-> served[1]]
        /\ requested = << <<"V?p=", 1>> >>
        /\ Len(served) = 1

C16_Witness ==
    /\ apiOp.op = "GetP1Telegram"
    /\ apiPc = "returned"
    /\ Len(requested) = 1
    /\ Len(served) = 1 /\ Len(served[1]) = 8 /\ served[1][2] = "!"
    /\ tg.Data.bytes = served[1]

\* C17: when GetP1Telegram returns a telegram of two or more pages, of which
\* the first two are not empty, Data is
\* the bodies of the requested pages one after the other and nothing else,
\* as long as the bodies together.
C17_DataIsConcatenation ==
    (apiOp.op = "GetP1Telegram" /\ apiPc = "returned" /\ apiRes.err.kind = "nil"
            /\ Len(served) >= 2 /\ Len(served[1]) > 0 /\ Len(served[2]) > 0) =>
        /\ tg.Data.bytes = Concat(served)
        /\ Len(tg.Data.bytes) = Len(Concat(served))

\* C18: GetP1Telegram requests the pages 1, 2, 3, ... in order and requests
\* no page once a page has come back empty or with '!' at offset 7 from
\* its end, whatever the number of pages requested so far.
C18_StopsAtMarker ==
    [][(apiOp.op = "GetP1Telegram" /\ Len(requested') > Len(requested)) =>
            /\ requested'[Len(requested')] = <<"V?p=", Len(requested) + 1>>
            /\ \A k \in 1..Len(served) :
                    /\ Len(served[k]) # 0
                    /\ ~(Len(served[k]) >= 7 /\ served[k][Len(served[k]) - 6] = "!")
      ]_vars

\* C19: GetLog with the per-minute interval and the utility Gas or Water
\* returns UnsupportedIntervalError with that utility and interval, and
\* Request is not called, so that no exchange is started.
C19_UnsupportedInterval ==
    (apiOp.op = "GetLog" /\ apiOp.i = 60 /\ apiOp.u \in {"gas", "water"}) =>
        /\ apiPc = "returned"
        /\ apiRes.err = [kind |-> "UnsupportedIntervalError", code |-> 0,
                         Utility |-> apiOp.u, Interval |-> apiOp.i]
        /\ requested = <<>>
        /\ \A t \in Callers : sent[t] = <<>>

C19_Witness ==
    /\ apiOp.op = "GetLog" /\ apiOp.i = 60 /\ apiOp.u = "water" /\ apiOp.page = 1
    /\ apiPc = "returned"
    /\ apiRes.err.kind = "UnsupportedIntervalError"
    /\ requested = <<>>

IntervalValues == {PerMin, Per10min, PerHour, PerDay}

UtilityValues == {Electricity, S0, Gas, Water}

\* The page a returned or panicked TimedValues or TimeOfValue call was made
\* on, and what TimedValues gave for it.
CalledOn(op) == apiOp.op = op /\ apiPc \in {"returned", "panicked"}

PageOf == apiOp.arg[1]

Samples == apiRes.val[1].val

SamplesErr == apiRes.val[1].err

\* C21: every operation given an Interval or Utility that is none of the
\* four values panics with the invalid-value fault and issues no exchange:
\* the accessors of Interval and Utility, GetLog (asked for a page from 1 on),
\* TimedValues and TimeOfValue.
C21_InvalidValueFaults ==
    /\ CalledOn("Interval") /\ apiOp.i \notin IntervalValues
          => apiPc = "panicked" /\ apiRes.val[1] = invalidInterval(apiOp.i)
    /\ CalledOn("Utility") /\ apiOp.u \notin UtilityValues
          => apiPc = "panicked" /\ apiRes.val[1] = invalidUtility(apiOp.u)
    /\ CalledOn("GetLog") /\ apiOp.page >= 1
         /\ (apiOp.i \notin IntervalValues \/ apiOp.u \notin UtilityValues)
          => apiPc = "panicked" /\ requested = <<>>
    /\ CalledOn("TimedValues") /\ PageOf.Interval \notin IntervalValues
          => apiPc = "panicked" /\ apiRes.val[1] = invalidInterval(PageOf.Interval)
    /\ CalledOn("TimeOfValue") /\ PageOf.Interval \notin IntervalValues
          => apiPc = "panicked" /\ requested = <<>>

\* C22: for each of the four Interval values Delta() is the declared number
\* of seconds (60, 600, 3600, 86400), Duration() is that many seconds, and
\* Param() is 'h', 'w', 'd', 'm' for per minute, per 10 minutes, per hour and
\* per day; none of the three panics.
C22_IntervalValues ==
    CalledOn("Interval") /\ apiOp.i \in IntervalValues =>
        LET f == apiOp.arg[1]
            v == apiRes.val[1]
            seconds == CASE apiOp.i = PerMin -> 60
                         [] apiOp.i = Per10min -> 600
                         [] apiOp.i = PerHour -> 3600
                         [] apiOp.i = PerDay -> 86400
            letter == CASE apiOp.i = PerMin -> "h"
                        [] apiOp.i = Per10min -> "w"
                        [] apiOp.i = PerHour -> "d"
                        [] apiOp.i = PerDay -> "m"
        IN  /\ apiPc = "returned"
            /\ f = "Delta" => v = seconds /\ v = apiOp.i
            /\ f = "Duration" => v = seconds /\ v = Delta(apiOp.i).val
            /\ f = "Param" => v = letter

C22_Witness ==
    /\ CalledOn("Interval")
    /\ apiOp.i = PerHour
    /\ apiOp.arg[1] = "Duration"
    /\ apiPc = "returned"
    /\ apiRes.val[1] = 3600

\* C23: for each of the four Utility values Endpoint() is its path segment
\* (electricity V, gas W, water K, S0 Z) and String() is the value's own
\* text, and the path GetLog requests starts with that segment.
C23_UtilityValues ==
    LET segment == CASE apiOp.u = Electricity -> "V"
                     [] apiOp.u = Gas -> "W"
                     [] apiOp.u = Water -> "K"
                     [] apiOp.u = S0 -> "Z"
    IN  /\ CalledOn("Utility") /\ apiOp.u \in UtilityValues =>
              /\ apiPc = "returned"
              /\ apiOp.arg[1] = "Endpoint" => apiRes.val[1] = segment
              /\ apiOp.arg[1] = "String" => apiRes.val[1] = apiOp.u
        /\ CalledOn("GetLog") /\ requested # <<>> =>
              /\ apiOp.u \in UtilityValues
              /\ Len(requested) = 1
              /\ requested[1][1] = segment

C23_Witness ==
    /\ CalledOn("GetLog")
    /\ apiOp.u = Water
    /\ requested # <<>>
    /\ requested[1][1] = "K"

\* C24: the k-th sample TimedValues emits, k counted from 0, has the time
\* start + k * interval, start being the parsed page timestamp: the first
\* sample is at the page start and every slot, active or inactive, takes
\* one interval.
C24_SampleTimes ==
    CalledOn("TimedValues") /\ apiPc = "returned" =>
        \A k \in 1..Len(Samples) :
            Samples[k].Time =
                Add(ParseLogTime(PageOf.Timestamp), (k - 1) * PageOf.Interval)

C24_Witness ==
    /\ CalledOn("TimedValues")
    /\ apiPc = "returned"
    /\ PageOf.Interval = Per10min
    /\ PageOf.RawValues = <<"12", "*", " 7 ">>
    /\ Len(Samples) = 3
    /\ Samples[3].Time = Time(PageStart, 1200)

\* C25: when the last raw value of a page is the empty string TimedValues
\* emits no sample for it, so a page of n raw values that all decode gives
\* n-1 samples; an empty string at any other position is emitted as an
\* inactive sample.
C25_TrailingEmptySkipped ==
    CalledOn("TimedValues") /\ apiPc = "returned" =>
        LET raw == PageOf.RawValues
            n == Len(raw)
        IN  /\ n > 0 /\ raw[n] = "" => Len(Samples) < n
            /\ n > 0 /\ raw[n] = "" /\ SamplesErr = NilErr => Len(Samples) = n - 1
            /\ \A j \in 1..(n - 1) :
                  raw[j] = "" /\ (\A h \in 1..j : raw[h] # "x") =>
                      /\ Len(Samples) >= j
                      /\ Samples[j].Inactive

C25_Witness ==
    /\ CalledOn("TimedValues")
    /\ apiPc = "returned"
    /\ PageOf.RawValues = <<"12", "", "">>
    /\ Len(Samples) = 2
    /\ Samples[2].Inactive

\* C26: a raw value that is the empty string, not in last position, or the
\* placeholder "*" gives a sample with Inactive = true and Value = 0, and
\* never makes TimedValues return an error: a page of such values and of
\* integers decodes without error.
C26_InactiveSamples ==
    CalledOn("TimedValues") /\ apiPc = "returned" =>
        LET raw == PageOf.RawValues
            n == Len(raw)
        IN  /\ \A j \in 1..Len(Samples) :
                  raw[j] \in {"", "*"} =>
                      Samples[j].Inactive /\ Samples[j].Value = 0
            /\ (\A j \in 1..n : raw[j] # "x") =>
                  /\ SamplesErr = NilErr
                  /\ Len(Samples) = IF n > 0 /\ raw[n] = "" THEN n - 1 ELSE n

C26_Witness ==
    /\ CalledOn("TimedValues")
    /\ apiPc = "returned"
    /\ PageOf.RawValues = <<"", "12", "*">>
    /\ SamplesErr = NilErr
    /\ Len(Samples) = 3
    /\ Samples[1].Inactive
    /\ Samples[3].Inactive
    /\ Samples[3].Value = 0

\* C27: when the raw value at index j is neither empty nor "*" and is no
\* integer after trimming, and the values before it decode, TimedValues
\* returns an error together with exactly the samples of indices 0..j-1, in
\* order.
C27_ErrorKeepsPrefix ==
    CalledOn("TimedValues") /\ apiPc = "returned" =>
        LET raw == PageOf.RawValues
        IN  \A j \in 1..Len(raw) :
                raw[j] = "x" /\ (\A h \in 1..(j - 1) : raw[h] # "x") =>
                    /\ SamplesErr # NilErr
                    /\ Len(Samples) = j - 1
                    /\ \A h \in 1..(j - 1) :
                          /\ Samples[h].Inactive = (raw[h] \in {"", "*"})
                          /\ Samples[h].Value =
                                CASE raw[h] = "12" -> 12
                                  [] raw[h] = " 7 " -> 7
                                  [] OTHER -> 0

C27_Witness ==
    /\ CalledOn("TimedValues")
    /\ apiPc = "returned"
    /\ PageOf.RawValues = <<"12", " 7 ", "x">>
    /\ SamplesErr = ErrSyntax
    /\ Len(Samples) = 2
    /\ Samples[1].Value = 12
    /\ Samples[2].Value = 7

\* C28: the timestamp codec round-trips: for every calendar time t at
\* minute resolution in UTC ParseTimestamp(ToTimestamp(t)) succeeds and gives
\* t, and for every number n ParseTimestamp accepts ToTimestamp of the time
\* it gives is n; 2024-01-28T12:00Z encodes to 2401281200.
C28_CodecRoundTrips ==
    /\ CalledOn("ToTimestamp") =>
          ParseTimestamp(apiRes.val[1]) = [t |-> apiOp.arg[1], err |-> NilErr]
    /\ CalledOn("ParseTimestamp") /\ apiRes.err = NilErr =>
          ToTimestamp(apiRes.val[1]) = apiOp.arg[1]
    /\ CalledOn("ToTimestamp") /\ apiOp.arg[1] = Date(2024, 1, 28, 12, 0) =>
          apiRes.val[1] = U64(0, 24, 1281200)

\* ------------------------------------------ claims C29, C30: the credential

\* C29: with no cookie cached AuthCookie authenticates with the contents of
\* PasswordFile when it is set, Password being set or not, and else with
\* Password when that is set; with both empty it returns no cookie and no
\* error and no authenticate exchange is issued; with a cookie cached it
\* returns that cookie without any exchange.
C29_AuthCookieCredential ==
    /\ [](\A t \in Callers :
            /\ \A i \in DOMAIN sent[t] :
                  sent[t][i].method = "POST" =>
                      /\ Config.PasswordFile # "" => sent[t][i].form = <<"w", FileContents>>
                      /\ Config.PasswordFile = "" =>
                            /\ Config.Password # ""
                            /\ sent[t][i].form = <<"w", Config.Password>>
            /\ (Config.PasswordFile = "" /\ Config.Password = "") =>
                  /\ Len(Posts(sent[t])) = 0
                  /\ pc[t] \notin InAuthorize
                  /\ ~IsSet(authRes[t]))
    /\ [][\A t \in Callers :
            (pc[t] = "fn_authcookie" /\ pc'[t] # pc[t]) =>
                /\ cookie # None =>
                      /\ pc'[t] = "req_exchange"
                      /\ sent'[t] = Append(sent[t], GetRequest(page[t], cookie))
                /\ (cookie = None /\ Config.PasswordFile = "" /\ Config.Password = "") =>
                      /\ pc'[t] = "req_exchange"
                      /\ sent'[t] = Append(sent[t], GetRequest(page[t], None))
                /\ (cookie = None /\ (Config.PasswordFile # "" \/ Config.Password # "")) =>
                      /\ pc'[t] \in {"auth_do", "req_fn_done"}
                      /\ sent'[t] = sent[t]
         ]_vars

C29_Witness ==
    \E t, u \in Callers :
        /\ t # u
        /\ Config.Password # ""
        /\ Config.PasswordFile # ""
        /\ Len(sent[t]) = 2
        /\ sent[t][1] = PostRequest(FileContents)
        /\ sent[t][2].method = "GET"
        /\ sent[u] = <<GetRequest(page[u], sent[t][2].cookie)>>

\* C30: when Authorize returns without error to the caller whose exchange
\* it was, the cookie it returns, which is the cached cookie, is the one
\* that exchange issued, whatever was cached before.
C30_ReturnsIssuedCookie ==
    [][\A t \in Callers :
        (pc[t] = "auth_ret" /\ pc'[t] = "req_exchange" /\ authResp[t].kind # "none") =>
            /\ authResp[t].tk # None
            /\ cookie = authResp[t].tk
            /\ sent'[t][Len(sent'[t])].cookie = authResp[t].tk
      ]_vars

\* ------------------------------------------ claims C31..C40

\* C38: on every page with a valid interval the sample TimedValues emits at
\* index k, k counted from 0, has the time TimeOfValue(k) gives for that
\* page: the walk tm = tm.Add(dt) and the product k * Interval agree.
C38_TimesAgree ==
    (CalledOn("TimedValues") /\ PageOf.Interval \in IntervalValues) =>
        /\ apiPc = "returned"
        /\ \A k \in 1..Len(Samples) :
              /\ ~TimeOfValue(PageOf, k - 1).panics
              /\ Samples[k].Time = TimeOfValue(PageOf, k - 1).val

C38_Witness ==
    /\ CalledOn("TimedValues")
    /\ PageOf.Interval = PerHour
    /\ PageOf.RawValues = <<"*", "12", " 7 ">>
    /\ Len(Samples) = 3
    /\ Samples[3].Time = TimeOfValue(PageOf, 2).val
    /\ TimeOfValue(PageOf, 2).val = Time(PageStart, 2 * Hour)

\* C39: GetP1Telegram returns whenever the device serves the end marker,
\* '!' at offset 7 from the end, on some page N and an empty body for every
\* page after N, every Request it makes returning: it requests no more than
\* N + 1 pages. The pages served so far are those of such a device when
\* some N up to MaxPages fits them.
C39_TelegramReturns ==
    LET Fits(N) ==
            /\ N <= Len(served) =>
                  Len(served[N]) >= MarkerOffset /\ AtEnd(served[N])
            /\ \A k \in (N + 1)..Len(served) : served[k] = <<>>
    IN  /\ (apiOp.op = "GetP1Telegram" /\ apiPc = "telegram")
              ~> (apiPc = "returned" \/ ~(\E N \in 1..MaxPages : Fits(N)))
        /\ [](apiOp.op = "GetP1Telegram" =>
                \A N \in 1..Len(served) :
                    Fits(N) => /\ Len(requested) <= N + 1
                               /\ Len(served) = N + 1 => apiPc = "returned")

C39_Witness ==
    /\ apiOp.op = "GetP1Telegram"
    /\ apiPc = "returned"
    /\ apiRes.err = NilErr
    /\ served = <<Plain(3), Marked(MarkerOffset), <<>>>>
    /\ Len(requested) = 3

\* C31: a client whose Config has an empty BaseURL fails every Request with
\* the configuration error (ErrInvalidConfig, as Config.Validate gives it)
\* before anything is sent: no caller of it ever sends a GET or a POST or
\* is inside c.client.Do.
C31_NoExchangeWithoutBaseURL ==
    Config.BaseURL = "" =>
        \A t \in Callers :
            /\ sent[t] = <<>>
            /\ pc[t] \notin {"req_exchange", "auth_exchange"}
            /\ IsSet(reqRes[t]) => reqRes[t].err.kind = "ErrInvalidConfig"

\* C32: the cached cookie changes only where the hook captures it: a step
\* that changes c.cookie is the end of a caller's authenticate or data
\* exchange with a redirect whose cookie tk is the one now cached. No other
\* step of Request, AuthCookie or Authorize, and no application of an
\* option, changes it.
C32_OnlyCaptureWritesCookie ==
    [][cookie' # cookie =>
          \E t \in Callers :
              \/ /\ pc[t] = "auth_exchange" /\ pc'[t] = "auth_fn_done"
                 /\ authResp'[t].kind = "redirect"
                 /\ authResp'[t].tk = cookie'
              \/ /\ pc[t] = "req_exchange" /\ pc'[t] = "req_read"
                 /\ dataResp'[t].kind = "redirect"
                 /\ dataResp'[t].tk = cookie'
      ]_vars

C32_Witness ==
    \E t \in Callers :
        /\ pc[t] = "req_read"
        /\ dataResp[t].kind = "redirect"
        /\ dataResp[t].tk = "c2"
        /\ cookie = "c2"
        /\ Len(sent[t]) = 2
        /\ sent[t][2].cookie = "c1"

\* C33: a step of a caller inside Request or Authorize writes no field of
\* the shared Client but c.cookie and the registry: it leaves the logger
\* c.log and the http.Client c.client, its Timeout included, as they were.
C33_CallsWriteNoOtherField ==
    [][(\E t \in Callers : pc'[t] # pc[t]) => (log' = log /\ client' = client)]_vars

\* C34, as the spec has it: once a cookie is cached the slot is never empty
\* again, and an exchange that fails, by a transport error (the body read
\* timing out included), by 403, by a status above 400 or by a failed
\* authentication, has stored no cookie: the response of a Request or an
\* Authorize whose fn returned an error is not one the hook captured.
C34_FailedExchangeStoresNothing ==
    /\ [][cookie # None => cookie' # None]_vars
    /\ [](\A t \in Callers :
            /\ (pc[t] = "req_fn_done" /\ IsErr(reqRes[t]) /\ dataResp[t].kind # "none") =>
                    ~(dataResp[t].kind = "redirect" /\ dataResp[t].tk # None)
            /\ (pc[t] = "auth_fn_done" /\ IsErr(authRes[t])) =>
                    ~(authResp[t].kind = "redirect" /\ authResp[t].tk # None))

\* C34, amended: once a cookie is cached the slot is never empty again, and
\* the end of an exchange in which c.client.Do fails or the response has
\* status 403 or a status above 400, and so every failed authentication,
\* leaves the cached cookie as it was. (A data exchange that ends with a
\* captured redirect has stored its cookie even when reading the body then
\* fails.)
C34_CookieStaysCached ==
    [][/\ cookie # None => cookie' # None
       /\ \A t \in Callers :
            /\ (pc[t] = "req_exchange" /\ pc'[t] # pc[t]
                    /\ (dataResp'[t].kind = "error"
                            \/ dataResp'[t].status = StatusForbidden
                            \/ dataResp'[t].status > StatusBadRequest)) =>
                  cookie' = cookie
            /\ (pc[t] = "auth_exchange" /\ pc'[t] # pc[t] /\ IsErr(authRes'[t])) =>
                  /\ cookie' = cookie
                  /\ \/ authResp'[t].kind = "error"
                     \/ authResp'[t].status = StatusForbidden
                     \/ authResp'[t].status > StatusBadRequest
      ]_vars

C34_Witness ==
    \E t, u \in Callers :
        /\ t # u
        /\ cookie = "c1"
        /\ pc[t] = "req_fn_done"
        /\ sent[t] = <<GetRequest(page[t], "c1")>>
        /\ dataResp[t].status = StatusForbidden
        /\ reqRes[t].err = ErrPasswordRequired
        /\ pc[u] = "req_fn_done"
        /\ sent[u] = <<GetRequest(page[u], "c1")>>
        /\ dataResp[u].kind = "error"

\* C36: Request's fn returns a payload only for a 2xx response: the body of
\* a response with a status outside 200..299 is not read, and fn does not
\* return without error for it.
C36_PayloadOnlyFor2xx ==
    \A t \in Callers :
        (pc[t] = "req_fn_done" /\ dataResp[t].kind \in {"final", "redirect"}
                /\ dataResp[t].status \notin 200..299) =>
            /\ ~dataResp[t].readOK
            /\ IsErr(reqRes[t])

\* C37: the body of every response that c.client.Do has returned to Request
\* or to Authorize is closed when the call's fn has returned, whatever the
\* status of the response.
C37_BodiesClosed ==
    \A t \in Callers :
        /\ (pc[t] = "req_fn_done" /\ dataResp[t].kind \in {"final", "redirect"}) =>
                dataResp[t].closed
        /\ (pc[t] = "auth_ret" /\ authResp[t].kind \in {"final", "redirect"}) =>
                authResp[t].closed

\* C40: a failed authentication is not remembered. The authenticate
\* exchange that fails stores no cookie; the registry holds an authenticate
\* call only while its owner is in the exchange or has not yet published
\* the result, so that no failure stays registered; and a caller that
\* enters Authorize with no call registered sends an authenticate request
\* of its own, whatever failures went before.
C40_FailureNotRemembered ==
    /\ [](group[AuthKey] # NoCall =>
            /\ group[AuthKey].fn = "auth"
            /\ pc[group[AuthKey].owner] \in {"auth_exchange", "auth_fn_done"}
            /\ ~IsSet(authRes[group[AuthKey].owner])
                  \/ pc[group[AuthKey].owner] = "auth_fn_done")
    /\ [][\A t \in Callers :
            /\ (pc[t] = "auth_exchange" /\ pc'[t] # pc[t] /\ IsErr(authRes'[t])) =>
                  cookie' = cookie
            /\ (pc[t] = "auth_do" /\ pc'[t] # pc[t] /\ group[AuthKey] = NoCall) =>
                  /\ pc'[t] = "auth_exchange"
                  /\ group'[AuthKey] = Call(t, "auth")
                  /\ sent'[t] = Append(sent[t], PostRequest(AuthPassword(Config)))
       ]_vars

C40_Witness ==
    \E t, u \in Callers :
        /\ t # u
        /\ cookie = None
        /\ pc[t] = "req_fn_done"
        /\ reqRes[t].err = ErrInvalidPassword
        /\ Len(sent[t]) = 1
        /\ pc[u] = "auth_exchange"
        /\ group[AuthKey] = Call(u, "auth")
        /\ sent[u] = <<PostRequest(AuthPassword(Config))>>

\* C35: every Request returns once the exchanges it starts are over,
\* whatever its page, the page "auth" included: no caller waits, in
\* Authorize or in Request, for a call of the registry that is its own,
\* which nothing but the waiting caller could end.
C35_NoCallWaitsOnItself ==
    \A t \in Callers :
        pc[t] \in {"auth_wait", "req_wait"} => waitOn[t].owner # t

====
